---- MODULE Spec2Model ----
(***************************************************************************)
(* Model of py3status/modules/xrandr_rotate.py: the Py3status widget that  *)
(* shows a rotation icon, toggles it on click and applies it with xrandr.  *)
(*                                                                         *)
(* Strings that the code only compares or tests for truth are strings;    *)
(* the rotation tokens, which it also tests with startswith, are sequences *)
(* of characters; a formatted text is the sequence of its pieces.          *)
(* The xrandr tool is the environment: the list of enabled outputs it      *)
(* prints, in the fixed order of the ports, and the rotation token it      *)
(* prints for each output the code can ask about (the enabled outputs and  *)
(* the configured screen).                                                 *)
(* The host serialises xrandr_rotate() and on_click(); each call is one    *)
(* step, and the tool's answers do not change during a call.               *)
(***************************************************************************)
EXTENDS Integers, Sequences, FiniteSets, TLC

\* ---------------------------------------------------------------- bounds
NumOutputs == 2   \* number of output names the tool knows
MaxButton == 5    \* click events carry a button in 1..MaxButton

\* ------------------------------------------------------- string literals
None == "None"              \* Python None; no output has this name
empty == ""                  \* the empty string, falsy
normal == <<"n","o","r","m","a","l">>
inverted == <<"i","n","v","e","r","t","e","d">>
left == <<"l","e","f","t">>
right == <<"r","i","g","h","t">>
paren_normal == <<"(">> \o normal
ALL == "ALL"
question_mark == "?"
eDP1 == "eDP1"
VGA1 == "VGA1"
HDMI1 == "HDMI1"
DP2 == "DP2"
OutputNames == <<eDP1, VGA1, HDMI1, DP2>>

\* ------------------------------------------- configuration (class fields)
cache_timeout == 10
\* the template '{icon} {screen}'; a token is a placeholder or a character
format == << "{icon}", " ", "{screen}" >>
horizontal_icon == "H"
vertical_icon == "V"
color_degraded == "#FFFF00"
color_good == "#00FF00"

\* ------------------------------------------------------- the environment
Outputs == { OutputNames[i] : i \in 1..NumOutputs }
\* tokens the tool can print in the rotation field of an output's line
Descriptors == { normal, inverted, left, right, paren_normal, << >> }
Range(s) == { s[i] : i \in DOMAIN s }
\* the position of an output in the tool's listing
Port(o) == CHOOSE i \in 1..NumOutputs : OutputNames[i] = o
\* lists of distinct output names, in the order the tool prints them
OutputLists ==
  { s \in UNION { [1..n -> Outputs] : n \in 0..NumOutputs } :
      \A i, j \in DOMAIN s : i < j => Port(s[i]) < Port(s[j]) }
\* the list that prints the outputs of a set
ListOf(S) ==
  LET listed(o) == o \in S
  IN SelectSeq(SubSeq(OutputNames, 1, NumOutputs), listed)
\* the outputs the code can name in a command: the listed ones and the screen
Known(scr, outs) == Range(outs) \cup (IF scr # None THEN { scr } ELSE { })
Buttons == 1..MaxButton

VARIABLES
  screen,                \* config: output name or None
  hide_if_disconnected,  \* config
  horizontal_rotation,   \* config
  vertical_rotation,     \* config
  displayed,             \* self.displayed
  connected,             \* xrandr: the enabled outputs it lists
  rotation,              \* xrandr: the rotation token per known output
  op,                    \* the last call: "init", "xrandr_rotate", "on_click", "xrandr"
  button,                \* event['button'] of the last on_click, else 0
  cmds,                  \* rotation commands issued by the last on_click
  response,              \* dict returned by the last xrandr_rotate, else <<>>
  exc                    \* exception the last call raised to the host, else ""

config == << screen, hide_if_disconnected, horizontal_rotation, vertical_rotation >>
vars == << screen, hide_if_disconnected, horizontal_rotation, vertical_rotation,
           displayed, connected, rotation, op, button, cmds, response, exc >>

\* ----------------------------------------------------------- the helpers
\* str.format: substitute the placeholders of the template
RECURSIVE format_format(_, _, _)
format_format(template, icon, screen_label) ==
  IF template = << >> THEN << >>
  ELSE LET tok == Head(template)
           piece == IF tok = "{icon}" THEN icon
                    ELSE IF tok = "{screen}" THEN screen_label
                    ELSE tok
       IN << piece >> \o format_format(Tail(template), icon, screen_label)

\* str.startswith('(')
startswith_paren(output) == Len(output) > 0 /\ output[1] = "("

\* _get_all_outputs: the names the tool lists, split on whitespace
get_all_outputs == connected

\* `self.screen or all_outputs[0]` raises IndexError on an empty list
IndexError(all_outputs) == screen = None /\ Len(all_outputs) = 0

\* variant: an empty token (the tool printed nothing) shown as unknown
get_current_rotation_icon_unknown(all_outputs) ==
  LET output == IF screen # None THEN screen ELSE all_outputs[1]
      descriptor == rotation[output]
      is_horizontal == startswith_paren(descriptor) \/ descriptor \in { normal, inverted }
  IN IF descriptor = << >> THEN question_mark
     ELSE IF is_horizontal THEN horizontal_icon ELSE vertical_icon

\* variant: the first listed output is inspected even with a screen configured
get_current_rotation_icon_first(all_outputs) ==
  LET output == IF Len(all_outputs) > 0 THEN all_outputs[1] ELSE screen
      descriptor == rotation[output]
      is_horizontal == startswith_paren(descriptor) \/ descriptor \in { normal, inverted }
  IN IF is_horizontal THEN horizontal_icon ELSE vertical_icon

\* _get_current_rotation_icon, where it does not raise
get_current_rotation_icon(all_outputs) ==
  LET output == IF screen # None THEN screen ELSE all_outputs[1]
      descriptor == rotation[output]
      is_horizontal == startswith_paren(descriptor) \/ descriptor \in { normal, inverted }
  IN IF is_horizontal THEN horizontal_icon ELSE vertical_icon

\* variant: only the horizontal selection is switched
switch_selection_one_way(d) ==
  IF d = horizontal_icon THEN vertical_icon ELSE d

\* _switch_selection: the new value of self.displayed
switch_selection(d) ==
  IF d = horizontal_icon THEN vertical_icon ELSE horizontal_icon

\* variant: every button but the right one switches
is_switch_button_any(b) == b # 3

\* variant: the right button also switches
is_switch_button_with_right(b) == b \in {1, 3, 4, 5}

\* on_click's first branch
is_switch_button(b) == b \in {1, 4, 5}

\* variant: the two keywords swapped
apply_rotation_swapped(d) ==
  IF d = horizontal_icon THEN vertical_rotation ELSE horizontal_rotation

\* variant: the horizontal keyword unless the vertical icon is selected
apply_rotation_default_horizontal(d) ==
  IF d = vertical_icon THEN vertical_rotation ELSE horizontal_rotation

\* _apply: the rotation keyword and the target outputs
apply_rotation(d) ==
  IF d = horizontal_icon THEN horizontal_rotation ELSE vertical_rotation
\* variant: without a configured screen only the last listed output is rotated
apply_outputs_last ==
  IF screen # None THEN << screen >>
  ELSE IF Len(get_all_outputs) = 0 THEN << >>
  ELSE << get_all_outputs[Len(get_all_outputs)] >>

apply_outputs == IF screen # None THEN << screen >> ELSE get_all_outputs
\* the command line of one rotation command
apply_cmd(output, rot) == << "xrandr", "--output", output, "--rotate", rot >>
\* what the tool prints for an output after it applied a rotation:
\* it may skip printing 'normal', and the field then starts with '('
tool_descriptor(rot) == IF rot = normal THEN paren_normal ELSE rot

\* ------------------------------------------------- xrandr_rotate's parts
selected_screen_disconnected(all_outputs) ==
  screen # None /\ screen \notin Range(all_outputs)

\* variant: hiding does not look at the hide_if_disconnected option
hidden_always(all_outputs) ==
  selected_screen_disconnected(all_outputs)

hidden(all_outputs) ==
  selected_screen_disconnected(all_outputs) /\ hide_if_disconnected

\* variant: the hide branch does not clear the selection
rotate_displayed_kept(all_outputs) ==
  IF hidden(all_outputs) THEN displayed
  ELSE IF displayed = empty THEN get_current_rotation_icon(all_outputs)
  ELSE displayed

\* variant: no discovery while the selected screen is disconnected
rotate_displayed_connected_only(all_outputs) ==
  IF hidden(all_outputs) THEN empty
  ELSE IF displayed = empty /\ ~ selected_screen_disconnected(all_outputs)
  THEN get_current_rotation_icon(all_outputs)
  ELSE displayed

\* variant: every render that can query the tool rediscovers the rotation
rotate_displayed_always(all_outputs) ==
  IF hidden(all_outputs) THEN empty
  ELSE IF displayed = empty \/ ~ IndexError(all_outputs)
  THEN get_current_rotation_icon(all_outputs)
  ELSE displayed

\* self.displayed after the if/else of lines 111-116 (where nothing raises)
rotate_displayed(all_outputs) ==
  IF hidden(all_outputs) THEN empty
  ELSE IF displayed = empty THEN get_current_rotation_icon(all_outputs)
  ELSE displayed

\* the local `screen` of line 118: the conditional expression binds last
screen_label(all_outputs) ==
  IF Len(all_outputs) = 1
  THEN (IF screen # None THEN screen ELSE all_outputs[1])
  ELSE ALL

\* variant: the text is formatted from the selection the call started with
full_text_stale(all_outputs, d) ==
  IF hidden(all_outputs) THEN << >>
  ELSE format_format(format, IF displayed # empty THEN displayed ELSE question_mark,
                     screen_label(all_outputs))

full_text(all_outputs, d) ==
  IF hidden(all_outputs) THEN << >>
  ELSE format_format(format, IF d # empty THEN d ELSE question_mark,
                     screen_label(all_outputs))

\* variant: degraded whenever the selected screen is disconnected
coloration_always_degraded(all_outputs, d) ==
  IF selected_screen_disconnected(all_outputs)
  THEN [ color |-> color_degraded ]
  ELSE IF d = get_current_rotation_icon(all_outputs)
  THEN [ color |-> color_good ]
  ELSE << >>

\* variant: the selection as it was when the call started is compared
coloration_stale(all_outputs, d) ==
  IF selected_screen_disconnected(all_outputs) /\ ~ hide_if_disconnected
  THEN [ color |-> color_degraded ]
  ELSE IF displayed = get_current_rotation_icon(all_outputs)
  THEN [ color |-> color_good ]
  ELSE << >>

\* the coloration of lines 127-130, d being self.displayed at that point
coloration(all_outputs, d) ==
  IF selected_screen_disconnected(all_outputs) /\ ~ hide_if_disconnected
  THEN [ color |-> color_degraded ]
  ELSE IF d = get_current_rotation_icon(all_outputs)
  THEN [ color |-> color_good ]
  ELSE << >>

\* line 116 raises when discovery runs on an empty list without a screen
raises_in_discovery(all_outputs) ==
  ~ hidden(all_outputs) /\ displayed = empty /\ IndexError(all_outputs)
\* line 129 raises when the elif is evaluated on an empty list without a screen
raises_in_coloration(all_outputs) ==
  ~ (selected_screen_disconnected(all_outputs) /\ ~ hide_if_disconnected)
  /\ IndexError(all_outputs)

\* ------------------------------------------------------------------ Init
Init ==
  /\ screen \in {None} \cup Outputs
  /\ hide_if_disconnected \in BOOLEAN
  /\ horizontal_rotation \in { normal, inverted }
  /\ vertical_rotation \in { left, right }
  /\ displayed = empty
  /\ connected \in OutputLists
  /\ rotation \in [Known(screen, connected) -> Descriptors]
  /\ op = "init"
  /\ button = 0
  /\ cmds = << >>
  /\ response = << >>
  /\ exc = ""

\* --------------------------------------------------------------- actions
\* xrandr_rotate(): the periodic render call
xrandr_rotate ==
  LET all_outputs == get_all_outputs
  IN /\ op' = "xrandr_rotate"
     /\ button' = 0
     /\ cmds' = << >>
     /\ UNCHANGED << config, connected, rotation >>
     /\ IF raises_in_discovery(all_outputs)
        THEN /\ exc' = "IndexError"
             /\ response' = << >>
             /\ UNCHANGED displayed
        ELSE LET d == rotate_displayed(all_outputs)
             IN /\ displayed' = d
                /\ IF raises_in_coloration(all_outputs)
                   THEN /\ exc' = "IndexError"
                        /\ response' = << >>
                   ELSE /\ exc' = ""
                        /\ response' =
                             [ cached_until |-> cache_timeout,
                               full_text |-> full_text(all_outputs, d) ]
                             @@ coloration(all_outputs, d)

\* variant: a switch click also applies the new selection
on_click_switch_applies ==
  \E b \in Buttons :
    /\ op' = "on_click"
    /\ button' = b
    /\ response' = << >>
    /\ exc' = ""
    /\ UNCHANGED << config, connected >>
    /\ IF is_switch_button(b) \/ b = 3
       THEN LET d == IF b = 3 THEN displayed ELSE switch_selection(displayed)
                rot == apply_rotation(d)
                outputs == apply_outputs
            IN /\ displayed' = d
               /\ cmds' = [ i \in DOMAIN outputs |-> apply_cmd(outputs[i], rot) ]
               /\ \E applied \in SUBSET Range(outputs) :
                    rotation' = [ o \in DOMAIN rotation |->
                                    IF o \in applied THEN tool_descriptor(rot)
                                    ELSE rotation[o] ]
       ELSE /\ cmds' = << >>
            /\ UNCHANGED << displayed, rotation >>

\* on_click(event)
on_click ==
  \E b \in Buttons :
    /\ op' = "on_click"
    /\ button' = b
    /\ response' = << >>
    /\ exc' = ""
    /\ UNCHANGED << config, connected >>
    /\ IF is_switch_button(b)
       THEN /\ displayed' = switch_selection(displayed)
            /\ cmds' = << >>
            /\ UNCHANGED rotation
       ELSE IF b = 3
       THEN LET rot == apply_rotation(displayed)
                outputs == apply_outputs
            IN /\ cmds' = [ i \in DOMAIN outputs |-> apply_cmd(outputs[i], rot) ]
               \* each command is fire-and-forget: the tool applies it or fails
               /\ \E applied \in SUBSET Range(outputs) :
                    rotation' = [ o \in DOMAIN rotation |->
                                    IF o \in applied THEN tool_descriptor(rot)
                                    ELSE rotation[o] ]
               /\ UNCHANGED displayed
       ELSE /\ cmds' = << >>
            /\ UNCHANGED << displayed, rotation >>

\* the environment: an output is plugged in or enabled
xrandr_plug ==
  /\ \E o \in Outputs \ Range(connected) :
       /\ connected' = ListOf(Range(connected) \cup { o })
       /\ IF o \in DOMAIN rotation
          THEN UNCHANGED rotation
          ELSE \E d \in Descriptors :
                 rotation' = [ x \in DOMAIN rotation \cup { o } |->
                                 IF x = o THEN d ELSE rotation[x] ]
  /\ op' = "xrandr"
  /\ button' = 0
  /\ cmds' = << >>
  /\ response' = << >>
  /\ exc' = ""
  /\ UNCHANGED << config, displayed >>

\* the environment: an output is unplugged or disabled
xrandr_unplug ==
  /\ \E o \in Range(connected) :
       /\ connected' = ListOf(Range(connected) \ { o })
       /\ rotation' = [ x \in DOMAIN rotation \ ({ o } \ { screen }) |-> rotation[x] ]
  /\ op' = "xrandr"
  /\ button' = 0
  /\ cmds' = << >>
  /\ response' = << >>
  /\ exc' = ""
  /\ UNCHANGED << config, displayed >>

\* the environment: something else rotates an output, or the tool fails
xrandr_rotation_change ==
  /\ \E o \in DOMAIN rotation, d \in Descriptors :
       d # rotation[o] /\ rotation' = [ rotation EXCEPT ![o] = d ]
  /\ op' = "xrandr"
  /\ button' = 0
  /\ cmds' = << >>
  /\ response' = << >>
  /\ exc' = ""
  /\ UNCHANGED << config, displayed, connected >>

Next ==
  \/ xrandr_rotate
  \/ on_click
  \/ xrandr_plug
  \/ xrandr_unplug
  \/ xrandr_rotation_change

Spec == Init /\ [][Next]_vars

\* ------------------------------------------ vocabulary of the properties
Rendered == op = "xrandr_rotate"
Returned == Rendered /\ exc = ""
Clicked == op = "on_click"
ToggleButtons == {1, 4, 5}
HasColor(r) == "color" \in DOMAIN r
\* the configured screen is set and the tool does not list it
Disconnected == screen # None /\ \A i \in DOMAIN connected : connected[i] # screen
\* the output whose rotation is inspected (when there is one)
Inspected == IF screen # None THEN screen ELSE connected[1]
\* the tokens that stand for a horizontal rotation
IsHorizontalToken(t) ==
  t = normal \/ t = inverted \/ (Len(t) >= 1 /\ Head(t) = "(")
IconOf(t) == IF IsHorizontalToken(t) THEN horizontal_icon ELSE vertical_icon
\* the outputs a right-click rotates
Targets == IF screen # None THEN << screen >> ELSE connected
SameTextAndColor(r1, r2) ==
  /\ r1.full_text = r2.full_text
  /\ HasColor(r1) = HasColor(r2)
  /\ HasColor(r1) => r1.color = r2.color

\* ------------------------------------------------------------ properties

\* C1: whatever calls were made and whatever the tool answered, displayed
\* is the empty string, horizontal_icon or vertical_icon.
C1_DisplayedIsIconOrEmpty ==
  displayed \in { empty, horizontal_icon, vertical_icon }

C1_Witness ==
  /\ Returned
  /\ displayed = vertical_icon
  /\ ~ Disconnected
  /\ rotation[Inspected] = << >>

\* C2 (as stated): when the tool lists no output, xrandr_rotate() still
\* returns a response with text and cached_until and raises nothing, for
\* every configuration and every value of displayed.
C2_EmptyOutputsRenderReturns ==
  (Rendered /\ connected = << >>) =>
     /\ exc = ""
     /\ { "full_text", "cached_until" } \subseteq DOMAIN response

\* C3 (as stated): in a render outside the hide branch the {screen} label
\* is the configured screen if one is set, else the single listed output,
\* else ALL.
C3_ScreenLabel ==
  (Returned /\ ~ (Disconnected /\ hide_if_disconnected)) =>
     /\ Len(response.full_text) = 3
     /\ response.full_text[3] =
          IF screen # None THEN screen
          ELSE IF Len(connected) = 1 THEN connected[1]
          ELSE ALL

\* C4: a returned response is degraded exactly when the configured screen
\* is not listed and hiding is off; otherwise it is good exactly when
\* displayed, as the call left it, is the icon of the inspected output's
\* rotation token; otherwise it has no color.
C4_Coloring ==
  Returned =>
    LET degraded == Disconnected /\ ~ hide_if_disconnected
    IN /\ degraded => (HasColor(response) /\ response.color = color_degraded)
       /\ (~ degraded /\ displayed = IconOf(rotation[Inspected])) =>
             (HasColor(response) /\ response.color = color_good)
       /\ (~ degraded /\ displayed # IconOf(rotation[Inspected])) =>
             ~ HasColor(response)

C4_Witness ==
  /\ Returned
  /\ screen # None /\ ~ Disconnected
  /\ displayed = IconOf(rotation[screen])
  /\ HasColor(response) /\ response.color = color_good

\* C5: a click with button 1, 4 or 5 turns horizontal_icon into
\* vertical_icon and vertical_icon into horizontal_icon, and leaves
\* displayed at one of the two icons whatever it was.
C5_Toggle ==
  [][
    (Clicked' /\ button' \in ToggleButtons) =>
       /\ displayed = horizontal_icon => displayed' = vertical_icon
       /\ displayed = vertical_icon => displayed' = horizontal_icon
       /\ displayed' \in { horizontal_icon, vertical_icon }
  ]_vars

C5_Witness ==
  /\ Clicked /\ button = 5
  /\ displayed = horizontal_icon

\* C6: a click with a button outside {1,3,4,5} changes nothing: displayed
\* is kept, no command is issued and no output's rotation changes.
C6_OtherButtonNoOp ==
  [][
    (Clicked' /\ button' \notin {1, 3, 4, 5}) =>
       /\ displayed' = displayed
       /\ cmds' = << >>
       /\ rotation' = rotation
       /\ connected' = connected
  ]_vars

C6_Witness ==
  /\ Clicked /\ button \notin {1, 3, 4, 5}
  /\ displayed = vertical_icon

\* C7: a render with the configured screen not listed and hiding on
\* leaves displayed empty and returns the empty text without a color,
\* whatever displayed was before.
C7_Hide ==
  [][
    (Rendered' /\ Disconnected /\ hide_if_disconnected) =>
       /\ exc' = ""
       /\ displayed' = empty
       /\ response'.full_text = << >>
       /\ ~ HasColor(response')
  ]_vars

C7_Witness ==
  /\ Returned
  /\ Disconnected /\ hide_if_disconnected
  /\ displayed = empty
  /\ response.full_text = << >>

C9_ToggleThenApply ==
  [][
    /\ (Clicked' /\ button' \in ToggleButtons /\ displayed # empty) =>
          /\ displayed' \in { horizontal_icon, vertical_icon }
          /\ displayed' # displayed
    /\ (Clicked /\ button \in ToggleButtons /\ Clicked' /\ button' = 3) =>
          /\ displayed' = displayed
          /\ displayed \in { horizontal_icon, vertical_icon }
          /\ Len(cmds') = Len(Targets)
          /\ \A i \in DOMAIN cmds' :
                /\ cmds'[i][3] = Targets[i]
                /\ displayed = horizontal_icon => cmds'[i][5] = horizontal_rotation
                /\ displayed = vertical_icon => cmds'[i][5] = vertical_rotation
  ]_vars

C9_Witness ==
  /\ Clicked /\ button = 3
  /\ screen = None
  /\ displayed = horizontal_icon
  /\ Len(cmds) = 2
  /\ cmds[1][3] # cmds[2][3]
  /\ \A i \in DOMAIN cmds : cmds[i][5] = horizontal_rotation

\* C10: a render that directly follows a returned render, the tool's
\* answers unchanged, returns the same text and the same color (or none)
\* and leaves displayed as the first one left it.
C10_RenderIdempotent ==
  [][
    (Returned /\ Rendered') =>
       /\ exc' = ""
       /\ SameTextAndColor(response, response')
       /\ displayed' = displayed
  ]_vars

C10_Witness ==
  /\ Returned
  /\ displayed = horizontal_icon
  /\ HasColor(response) /\ response.color = color_good
  /\ Len(connected) = 2

\* C11: discovery inspects the configured screen if one is set and the
\* first listed output otherwise, and yields horizontal_icon exactly when
\* that output's token is normal, inverted or begins with "("; every other
\* token, the empty one included, yields vertical_icon.
C11_Classification ==
  [][
    (Rendered' /\ exc' = "" /\ displayed = empty
       /\ ~ (Disconnected /\ hide_if_disconnected)) =>
       LET t == rotation[IF screen # None THEN screen ELSE connected[1]]
       IN /\ displayed' \in { horizontal_icon, vertical_icon }
          /\ displayed' = horizontal_icon <=>
                \/ t = normal
                \/ t = inverted
                \/ (Len(t) >= 1 /\ t[1] = "(")
          /\ t = << >> => displayed' = vertical_icon
  ]_vars

C11_Witness ==
  /\ Returned
  /\ screen # None /\ Len(connected) = 2 /\ connected[1] # screen
  /\ rotation[screen] = paren_normal
  /\ rotation[connected[1]] = << >>
  /\ displayed = horizontal_icon
  /\ response.color = color_good

\* C12: a render that starts with displayed empty while the inspected
\* output is listed (no screen configured and some output listed, or the
\* configured screen listed) leaves displayed at the icon of that output's
\* token, shows that icon in the text and returns the good color.
C12_FirstRender ==
  [][
    (Rendered' /\ displayed = empty
       /\ \/ (screen = None /\ Len(connected) >= 1)
          \/ (screen # None /\ ~ Disconnected)) =>
       /\ exc' = ""
       /\ displayed' = IconOf(rotation[Inspected])
       /\ Len(response'.full_text) = 3
       /\ response'.full_text[1] = IconOf(rotation[Inspected])
       /\ HasColor(response') /\ response'.color = color_good
  ]_vars

C12_Witness ==
  /\ Returned
  /\ screen = None /\ connected = << eDP1 >>
  /\ rotation[eDP1] = normal
  /\ displayed = horizontal_icon
  /\ response.full_text = << horizontal_icon, " ", eDP1 >>
  /\ response.color = color_good

\* the transitions of displayed that the state machine lists
ByDiscovery ==
  /\ Rendered' /\ displayed = empty
  /\ ~ (Disconnected /\ hide_if_disconnected)
  /\ displayed' = IconOf(rotation[Inspected])
ByToggle ==
  /\ Clicked' /\ button' \in ToggleButtons
  /\ \/ displayed = horizontal_icon /\ displayed' = vertical_icon
     \/ displayed = vertical_icon /\ displayed' = horizontal_icon
ByHiding ==
  /\ Rendered' /\ Disconnected /\ hide_if_disconnected
  /\ displayed' = empty
\* a toggle click on the empty selection selects horizontal_icon
ByToggleFromEmpty ==
  /\ Clicked' /\ button' \in ToggleButtons
  /\ displayed = empty /\ displayed' = horizontal_icon

\* C13 (as stated): displayed changes only from empty to an icon by a
\* render's discovery, between the two icons by a toggle click, and to
\* empty by a render that hides; empty is left only by discovery.
C13_ListedTransitions ==
  [][
    displayed' # displayed => (ByDiscovery \/ ByToggle \/ ByHiding)
  ]_vars

\* C13 (amended): displayed changes only by those transitions or from
\* empty to horizontal_icon by a toggle click.
C13_Transitions ==
  [][
    displayed' # displayed =>
       (ByDiscovery \/ ByToggle \/ ByHiding \/ ByToggleFromEmpty)
  ]_vars

C13_Witness ==
  /\ Clicked /\ button \in ToggleButtons
  /\ displayed = horizontal_icon
  /\ connected = << >> /\ screen = None

\* C14: a render outside the hide branch that starts with displayed at an
\* icon leaves displayed as it is, whatever the inspected output's token.
C14_NoRediscovery ==
  [][
    (Rendered' /\ displayed # empty
       /\ ~ (Disconnected /\ hide_if_disconnected)) =>
       displayed' = displayed
  ]_vars

C14_Witness ==
  /\ Returned
  /\ ~ Disconnected /\ Len(connected) >= 1
  /\ displayed = horizontal_icon
  /\ IconOf(rotation[Inspected]) = vertical_icon
  /\ ~ HasColor(response)

\* C15 (as stated): after every render outside the hide branch displayed
\* is one of the two icons, the configured screen being listed or not, and
\* the icon in the text is one of the two icons.
C15_NonEmptyAfterRender ==
  (Rendered /\ ~ (Disconnected /\ hide_if_disconnected)) =>
     /\ displayed \in { horizontal_icon, vertical_icon }
     /\ exc = "" => /\ Len(response.full_text) = 3
                    /\ response.full_text[1] \in { horizontal_icon, vertical_icon }

\* C16: a click with button 1, 4 or 5 issues no command to the tool, and
\* the listed outputs and every output's rotation token are as before.
C16_ToggleIsLocal ==
  [][
    (Clicked' /\ button' \in ToggleButtons) =>
       /\ cmds' = << >>
       /\ rotation' = rotation
       /\ connected' = connected
  ]_vars

C16_Witness ==
  /\ Clicked /\ button = 4
  /\ displayed = vertical_icon
  /\ cmds = << >>
  /\ Len(connected) = 2
  /\ \A o \in DOMAIN rotation : rotation[o] = normal

\* C17: a click with button 3 leaves displayed as it was, whether the
\* tool applies the rotation commands or not.
C17_ApplyKeepsDisplayed ==
  [][
    (Clicked' /\ button' = 3) => displayed' = displayed
  ]_vars

C17_Witness ==
  /\ Clicked /\ button = 3
  /\ displayed = horizontal_icon
  /\ Len(cmds) = 1
  /\ rotation[cmds[1][3]] = left

\* C18: a click with button 3 while displayed is empty issues one command
\* with the vertical keyword for every target output, whatever rotation
\* the outputs have.
C18_ApplyFromEmpty ==
  [][
    (Clicked' /\ button' = 3 /\ displayed = empty) =>
       /\ Len(cmds') = Len(Targets)
       /\ \A i \in DOMAIN cmds' :
             /\ cmds'[i][3] = Targets[i]
             /\ cmds'[i][5] = vertical_rotation
  ]_vars

C18_Witness ==
  /\ Clicked /\ button = 3
  /\ displayed = empty
  /\ Len(cmds) = 2
  /\ \A i \in DOMAIN cmds : cmds[i][5] = vertical_rotation
  /\ rotation[cmds[1][3]] = paren_normal
  /\ rotation[cmds[2][3]] = vertical_rotation

\* the output's token shows the rotation keyword as applied
ShowsKeyword(t, rot) ==
  \/ t = rot
  \/ (rot = normal /\ Len(t) >= 1 /\ t[1] = "(")
\* the last call was a right-click, the target outputs are listed, there
\* is one, and the tool applied every command that was issued
RightClickApplied ==
  /\ Clicked /\ button = 3
  /\ Len(Targets) >= 1
  /\ \A i \in DOMAIN Targets : \E j \in DOMAIN connected : connected[j] = Targets[i]
  /\ horizontal_rotation \in { normal, inverted }
  /\ vertical_rotation \in { left, right }
  /\ Len(cmds) >= 1
  /\ \A i \in DOMAIN cmds : ShowsKeyword(rotation[cmds[i][3]], cmds[i][5])

\* C19: when a right-click found its targets listed and the tool applied
\* every command, the render that directly follows returns the good color.
C19_GoodAfterApply ==
  [][
    (RightClickApplied /\ Rendered') =>
       /\ exc' = ""
       /\ HasColor(response') /\ response'.color = color_good
  ]_vars

C19_Witness ==
  /\ Returned
  /\ screen = None /\ Len(connected) = 2
  /\ displayed = vertical_icon
  /\ \A o \in DOMAIN rotation : rotation[o] = vertical_rotation
  /\ HasColor(response) /\ response.color = color_good

TypeOK ==
  /\ displayed \in { empty, horizontal_icon, vertical_icon }
  /\ op \in { "init", "xrandr_rotate", "on_click", "xrandr" }
====
